---- MODULE Spec2Model ----
(***************************************************************************)
(* Transaction engine of tpetuu/Transact (src/main.rs).                    *)
(*                                                                         *)
(* One run of process_transaction_list: the records of the input list are  *)
(* consumed one at a time; each is converted to a Transaction, handed to   *)
(* process_transaction, and then pushed on the list of disputable          *)
(* operations.                                                             *)
(*                                                                         *)
(* Amounts are f32 values rounded to four fractional digits on input; the  *)
(* model counts them in integer units of 1e-4, so that sums and            *)
(* differences are exact (no binary rounding error is modelled).           *)
(***************************************************************************)
EXTENDS Integers, Sequences, FiniteSets

\* ------------------------------------------------------------------ bounds
\* Number of input records consumed in one run.
MaxOps == 4

\* Values of the `client` and `tx` columns of the input records, and of the
\* `amount` column of the deposit and of the withdrawal records, in units of
\* 1e-4.
ClientIds == {1, 2}
TxIds == {1, 2}
DepositAmounts == {1, 2}
WithdrawalAmounts == {1}

VARIABLES
    clients,        \* Vec<Client> of main, in insertion order
    transactions,   \* Vec<Transaction> "that can be disputed" (the Journal)
    disputes,       \* Vec<Transaction> of disputed transactions (the Registry)
    n,              \* number of records of lst consumed so far
    log,            \* the transactions handed to process_transaction so far,
                    \* each with its outcome and the diagnostic it printed
    panicked        \* TRUE once an assert! has aborted the process

vars == <<clients, transactions, disputes, n, log, panicked>>

\* ------------------------------------------------------------ Transaction
DEPOSIT(client_id, tx_id, amount) ==
    [type |-> "DEPOSIT", client |-> client_id, id |-> tx_id, amount |-> amount]

WITHDRAWAL(client_id, tx_id, amount) ==
    [type |-> "WITHDRAWAL", client |-> client_id, id |-> tx_id, amount |-> amount]

DISPUTE(client_id, tx_id) ==
    [type |-> "DISPUTE", client |-> client_id, id |-> tx_id]

RESOLVE(client_id, tx_id) ==
    [type |-> "RESOLVE", client |-> client_id, id |-> tx_id]

CHARGEBACK(client_id, tx_id) ==
    [type |-> "CHARGEBACK", client |-> client_id, id |-> tx_id]

\* ------------------------------------------------------------ diagnostics
\* What the eprintln! of a rejecting path reports; NoDiag when nothing is
\* printed.
NoDiag == "none"
LockedAccount == "locked account"
UnknownClient == "unknown client"
LacksFunds == "lacks funds"
ClientMismatch == "client mismatch"
UnknownTx == "unknown or invalid"

\* ---------------------------------------------------------------- lookups
\* Index of the first client with this id, 0 for None.
FindClientById(cls, client_id) ==
    LET hits == {i \in 1..Len(cls) : cls[i].id = client_id}
    IN  IF hits = {} THEN 0 ELSE CHOOSE i \in hits : \A j \in hits : i <= j

\* The field confusion `DEPOSIT(list_trans_id, _, _)`: the client id is
\* compared with the transaction id.
IsSameTxIdWrongField(tx, trans_id) ==
    /\ tx.type \in {"DEPOSIT", "WITHDRAWAL"}
    /\ tx.client = trans_id

IsSameTxId(tx, trans_id) ==
    /\ tx.type \in {"DEPOSIT", "WITHDRAWAL"}
    /\ tx.id = trans_id

\* Index of the first matching operation, 0 for None.
FindOperationById(txs, trans_id) ==
    LET hits == {i \in 1..Len(txs) : IsSameTxId(txs[i], trans_id)}
    IN  IF hits = {} THEN 0 ELSE CHOOSE i \in hits : \A j \in hits : i <= j

\* Removes the first matching operation, if any.
RemoveOperationById(txs, trans_id) ==
    LET i == FindOperationById(txs, trans_id)
    IN  IF i = 0 THEN txs
        ELSE SubSeq(txs, 1, i - 1) \o SubSeq(txs, i + 1, Len(txs))

\* Result of an apply_* function: its return value, the client as it leaves
\* it, the diagnostic printed, and whether an assert! failed.
Applied(ok, cl, diag) == [ok |-> ok, cl |-> cl, diag |-> diag, panic |-> FALSE]
Aborted(cl) == [ok |-> FALSE, cl |-> cl, diag |-> NoDiag, panic |-> TRUE]

\* ---------------------------------------------------------------- apply_*
\* apply_dispute whose WITHDRAWAL arm leaves out `client.total += tx_amount`.
ApplyDisputeNoTotal(client, transaction) ==
    IF transaction.type = "DEPOSIT" THEN
        IF transaction.client # client.id THEN Applied(FALSE, client, ClientMismatch)
        ELSE IF client.locked THEN Applied(FALSE, client, LockedAccount)
        ELSE IF client.available < transaction.amount
            THEN Applied(FALSE, client, LacksFunds)
        ELSE Applied(TRUE,
                     [client EXCEPT !.available = @ - transaction.amount,
                                    !.held = @ + transaction.amount],
                     NoDiag)
    ELSE IF transaction.type = "WITHDRAWAL" THEN
        IF transaction.client # client.id THEN Applied(FALSE, client, ClientMismatch)
        ELSE IF client.locked THEN Applied(FALSE, client, LockedAccount)
        ELSE Applied(TRUE, [client EXCEPT !.held = @ + transaction.amount], NoDiag)
    ELSE Applied(FALSE, client, NoDiag)

\* apply_dispute without its `if client.available < *tx_amount { return false }`.
ApplyDisputeNoFundsCheck(client, transaction) ==
    IF transaction.type = "DEPOSIT" THEN
        IF transaction.client # client.id THEN Applied(FALSE, client, ClientMismatch)
        ELSE IF client.locked THEN Applied(FALSE, client, LockedAccount)
        ELSE Applied(TRUE,
                     [client EXCEPT !.available = @ - transaction.amount,
                                    !.held = @ + transaction.amount],
                     NoDiag)
    ELSE IF transaction.type = "WITHDRAWAL" THEN
        IF transaction.client # client.id THEN Applied(FALSE, client, ClientMismatch)
        ELSE IF client.locked THEN Applied(FALSE, client, LockedAccount)
        ELSE Applied(TRUE,
                     [client EXCEPT !.held = @ + transaction.amount,
                                    !.total = @ + transaction.amount],
                     NoDiag)
    ELSE Applied(FALSE, client, NoDiag)

ApplyDispute(client, transaction) ==
    IF transaction.type = "DEPOSIT" THEN
        IF transaction.client # client.id THEN Applied(FALSE, client, ClientMismatch)
        ELSE IF client.locked THEN Applied(FALSE, client, LockedAccount)
        ELSE IF client.available < transaction.amount
            THEN Applied(FALSE, client, LacksFunds)
        ELSE Applied(TRUE,
                     [client EXCEPT !.available = @ - transaction.amount,
                                    !.held = @ + transaction.amount],
                     NoDiag)
    ELSE IF transaction.type = "WITHDRAWAL" THEN
        IF transaction.client # client.id THEN Applied(FALSE, client, ClientMismatch)
        ELSE IF client.locked THEN Applied(FALSE, client, LockedAccount)
        ELSE Applied(TRUE,
                     [client EXCEPT !.held = @ + transaction.amount,
                                    !.total = @ + transaction.amount],
                     NoDiag)
    ELSE Applied(FALSE, client, NoDiag)

\* apply_resolve ending, like apply_chargeback, with `client.locked = true`.
ApplyResolveLocks(client, transaction) ==
    IF transaction.type = "DEPOSIT" THEN
        IF transaction.client # client.id THEN Applied(FALSE, client, ClientMismatch)
        ELSE IF client.locked THEN Applied(FALSE, client, LockedAccount)
        ELSE IF ~(client.held >= transaction.amount) THEN Aborted(client)
        ELSE Applied(TRUE,
                     [client EXCEPT !.held = @ - transaction.amount,
                                    !.available = @ + transaction.amount,
                                    !.locked = TRUE],
                     NoDiag)
    ELSE IF transaction.type = "WITHDRAWAL" THEN
        IF transaction.client # client.id THEN Applied(FALSE, client, ClientMismatch)
        ELSE IF client.locked THEN Applied(FALSE, client, LockedAccount)
        ELSE IF ~(client.held >= transaction.amount) THEN Aborted(client)
        ELSE IF ~(client.total >= transaction.amount)
            THEN Aborted([client EXCEPT !.held = @ - transaction.amount])
        ELSE Applied(TRUE,
                     [client EXCEPT !.held = @ - transaction.amount,
                                    !.total = @ - transaction.amount,
                                    !.locked = TRUE],
                     NoDiag)
    ELSE Applied(FALSE, client, NoDiag)

\* apply_resolve without its `if client.locked { return false }`.
ApplyResolveNoLockCheck(client, transaction) ==
    IF transaction.type = "DEPOSIT" THEN
        IF transaction.client # client.id THEN Applied(FALSE, client, ClientMismatch)
        ELSE IF ~(client.held >= transaction.amount) THEN Aborted(client)
        ELSE Applied(TRUE,
                     [client EXCEPT !.held = @ - transaction.amount,
                                    !.available = @ + transaction.amount],
                     NoDiag)
    ELSE IF transaction.type = "WITHDRAWAL" THEN
        IF transaction.client # client.id THEN Applied(FALSE, client, ClientMismatch)
        ELSE IF ~(client.held >= transaction.amount) THEN Aborted(client)
        ELSE IF ~(client.total >= transaction.amount)
            THEN Aborted([client EXCEPT !.held = @ - transaction.amount])
        ELSE Applied(TRUE,
                     [client EXCEPT !.held = @ - transaction.amount,
                                    !.total = @ - transaction.amount],
                     NoDiag)
    ELSE Applied(FALSE, client, NoDiag)

ApplyResolve(client, transaction) ==
    IF transaction.type = "DEPOSIT" THEN
        IF transaction.client # client.id THEN Applied(FALSE, client, ClientMismatch)
        ELSE IF client.locked THEN Applied(FALSE, client, LockedAccount)
        ELSE IF ~(client.held >= transaction.amount) THEN Aborted(client)
        ELSE Applied(TRUE,
                     [client EXCEPT !.held = @ - transaction.amount,
                                    !.available = @ + transaction.amount],
                     NoDiag)
    ELSE IF transaction.type = "WITHDRAWAL" THEN
        IF transaction.client # client.id THEN Applied(FALSE, client, ClientMismatch)
        ELSE IF client.locked THEN Applied(FALSE, client, LockedAccount)
        ELSE IF ~(client.held >= transaction.amount) THEN Aborted(client)
        ELSE IF ~(client.total >= transaction.amount)
            THEN Aborted([client EXCEPT !.held = @ - transaction.amount])
        ELSE Applied(TRUE,
                     [client EXCEPT !.held = @ - transaction.amount,
                                    !.total = @ - transaction.amount],
                     NoDiag)
    ELSE Applied(FALSE, client, NoDiag)

\* apply_chargeback without its final `client.locked = true`.
ApplyChargebackNoLock(client, transaction) ==
    IF transaction.type = "DEPOSIT" THEN
        IF transaction.client # client.id THEN Applied(FALSE, client, ClientMismatch)
        ELSE IF client.locked THEN Applied(FALSE, client, LockedAccount)
        ELSE IF ~(client.held >= transaction.amount) THEN Aborted(client)
        ELSE IF ~(client.total >= transaction.amount)
            THEN Aborted([client EXCEPT !.held = @ - transaction.amount])
        ELSE Applied(TRUE,
                     [client EXCEPT !.held = @ - transaction.amount,
                                    !.total = @ - transaction.amount],
                     NoDiag)
    ELSE IF transaction.type = "WITHDRAWAL" THEN
        IF transaction.client # client.id THEN Applied(FALSE, client, ClientMismatch)
        ELSE IF client.locked THEN Applied(FALSE, client, LockedAccount)
        ELSE IF ~(client.held >= transaction.amount) THEN Aborted(client)
        ELSE Applied(TRUE,
                     [client EXCEPT !.held = @ - transaction.amount,
                                    !.available = @ + transaction.amount],
                     NoDiag)
    ELSE Applied(FALSE, client, NoDiag)

ApplyChargeback(client, transaction) ==
    IF transaction.type = "DEPOSIT" THEN
        IF transaction.client # client.id THEN Applied(FALSE, client, ClientMismatch)
        ELSE IF client.locked THEN Applied(FALSE, client, LockedAccount)
        ELSE IF ~(client.held >= transaction.amount) THEN Aborted(client)
        ELSE IF ~(client.total >= transaction.amount)
            THEN Aborted([client EXCEPT !.held = @ - transaction.amount])
        ELSE Applied(TRUE,
                     [client EXCEPT !.held = @ - transaction.amount,
                                    !.total = @ - transaction.amount,
                                    !.locked = TRUE],
                     NoDiag)
    ELSE IF transaction.type = "WITHDRAWAL" THEN
        IF transaction.client # client.id THEN Applied(FALSE, client, ClientMismatch)
        ELSE IF client.locked THEN Applied(FALSE, client, LockedAccount)
        ELSE IF ~(client.held >= transaction.amount) THEN Aborted(client)
        ELSE Applied(TRUE,
                     [client EXCEPT !.held = @ - transaction.amount,
                                    !.available = @ + transaction.amount,
                                    !.locked = TRUE],
                     NoDiag)
    ELSE Applied(FALSE, client, NoDiag)

\* ---------------------------------------------------- process_transaction
\* What one call of process_transaction leaves behind: the three collections,
\* whether the operation was applied, the diagnostic printed, and whether an
\* assert! aborted the process.
Outcome(cls, ops, dis, ok, diag, panic) ==
    [clients |-> cls, operations |-> ops, disputes |-> dis,
     ok |-> ok, diag |-> diag, panic |-> panic]

NewClient(client_id, amount) ==
    [id |-> client_id, available |-> amount, held |-> 0, total |-> amount,
     locked |-> FALSE]

\* The DEPOSIT arm without its `if cl.locked { return }`.
ProcessDepositNoLockCheck(transaction, cls, ops, dis) ==
    LET i == FindClientById(cls, transaction.client)
        journaled == Append(ops, DEPOSIT(transaction.client, transaction.id,
                                         transaction.amount))
    IN  IF i # 0 THEN
            Outcome([cls EXCEPT ![i].available = @ + transaction.amount,
                                ![i].total = @ + transaction.amount],
                    journaled, dis, TRUE, NoDiag, FALSE)
        ELSE Outcome(Append(cls, NewClient(transaction.client, transaction.amount)),
                     journaled, dis, TRUE, NoDiag, FALSE)

\* The DEPOSIT arm putting the record of a new client in front of the others
\* (`clients.insert(0, ..)`).
ProcessDepositPrepends(transaction, cls, ops, dis) ==
    LET i == FindClientById(cls, transaction.client)
        journaled == Append(ops, DEPOSIT(transaction.client, transaction.id,
                                         transaction.amount))
    IN  IF i # 0 THEN
            IF cls[i].locked
            THEN Outcome(cls, ops, dis, FALSE, LockedAccount, FALSE)
            ELSE Outcome([cls EXCEPT ![i].available = @ + transaction.amount,
                                     ![i].total = @ + transaction.amount],
                         journaled, dis, TRUE, NoDiag, FALSE)
        ELSE Outcome(<<NewClient(transaction.client, transaction.amount)>> \o cls,
                     journaled, dis, TRUE, NoDiag, FALSE)

\* The DEPOSIT arm pushing a new record for a known client too (a lookup that
\* never finds the client).
ProcessDepositAlwaysPushes(transaction, cls, ops, dis) ==
    Outcome(Append(cls, NewClient(transaction.client, transaction.amount)),
            Append(ops, DEPOSIT(transaction.client, transaction.id,
                                transaction.amount)),
            dis, TRUE, NoDiag, FALSE)

ProcessDeposit(transaction, cls, ops, dis) ==
    LET i == FindClientById(cls, transaction.client)
        journaled == Append(ops, DEPOSIT(transaction.client, transaction.id,
                                         transaction.amount))
    IN  IF i # 0 THEN
            IF cls[i].locked
            THEN Outcome(cls, ops, dis, FALSE, LockedAccount, FALSE)
            ELSE Outcome([cls EXCEPT ![i].available = @ + transaction.amount,
                                     ![i].total = @ + transaction.amount],
                         journaled, dis, TRUE, NoDiag, FALSE)
        ELSE Outcome(Append(cls, NewClient(transaction.client, transaction.amount)),
                     journaled, dis, TRUE, NoDiag, FALSE)

\* The WITHDRAWAL arm creating, like the DEPOSIT arm, a record for a client
\* it does not find.
ProcessWithdrawalCreates(transaction, cls, ops, dis) ==
    LET i == FindClientById(cls, transaction.client)
    IN  IF i # 0 THEN
            IF cls[i].locked
            THEN Outcome(cls, ops, dis, FALSE, LockedAccount, FALSE)
            ELSE IF cls[i].available < transaction.amount
            THEN Outcome(cls, ops, dis, FALSE, LacksFunds, FALSE)
            ELSE Outcome([cls EXCEPT ![i].available = @ - transaction.amount,
                                     ![i].total = @ - transaction.amount],
                         Append(ops, transaction), dis, TRUE, NoDiag, FALSE)
        ELSE Outcome(Append(cls, NewClient(transaction.client, 0)),
                     ops, dis, FALSE, UnknownClient, FALSE)

\* The WITHDRAWAL arm testing `cl.available <= *amount`: the whole available
\* balance cannot be withdrawn.
ProcessWithdrawalStrict(transaction, cls, ops, dis) ==
    LET i == FindClientById(cls, transaction.client)
    IN  IF i # 0 THEN
            IF cls[i].locked
            THEN Outcome(cls, ops, dis, FALSE, LockedAccount, FALSE)
            ELSE IF cls[i].available <= transaction.amount
            THEN Outcome(cls, ops, dis, FALSE, LacksFunds, FALSE)
            ELSE Outcome([cls EXCEPT ![i].available = @ - transaction.amount,
                                     ![i].total = @ - transaction.amount],
                         Append(ops, transaction), dis, TRUE, NoDiag, FALSE)
        ELSE Outcome(cls, ops, dis, FALSE, UnknownClient, FALSE)

ProcessWithdrawal(transaction, cls, ops, dis) ==
    LET i == FindClientById(cls, transaction.client)
    IN  IF i # 0 THEN
            IF cls[i].locked
            THEN Outcome(cls, ops, dis, FALSE, LockedAccount, FALSE)
            ELSE IF cls[i].available < transaction.amount
            THEN Outcome(cls, ops, dis, FALSE, LacksFunds, FALSE)
            ELSE Outcome([cls EXCEPT ![i].available = @ - transaction.amount,
                                     ![i].total = @ - transaction.amount],
                         Append(ops, transaction), dis, TRUE, NoDiag, FALSE)
        ELSE Outcome(cls, ops, dis, FALSE, UnknownClient, FALSE)

\* The DISPUTE arm removing the operation from the disputable list only when
\* apply_dispute succeeded.
ProcessDisputeKeepsOnFailure(transaction, cls, ops, dis) ==
    LET i == FindClientById(cls, transaction.client)
        k == FindOperationById(ops, transaction.id)
    IN  IF i # 0 THEN
            IF k # 0 THEN
                LET r == ApplyDispute(cls[i], ops[k])
                IN  Outcome([cls EXCEPT ![i] = r.cl],
                            IF r.ok THEN RemoveOperationById(ops, transaction.id)
                                    ELSE ops,
                            IF r.ok THEN Append(dis, ops[k]) ELSE dis,
                            r.ok, r.diag, FALSE)
            ELSE Outcome(cls, ops, dis, FALSE, UnknownTx, FALSE)
        ELSE Outcome(cls, ops, dis, FALSE, UnknownClient, FALSE)

\* The DISPUTE arm without its `disputes.push(dispute_tx.clone())`.
ProcessDisputeNoRegister(transaction, cls, ops, dis) ==
    LET i == FindClientById(cls, transaction.client)
        k == FindOperationById(ops, transaction.id)
    IN  IF i # 0 THEN
            IF k # 0 THEN
                LET r == ApplyDispute(cls[i], ops[k])
                IN  Outcome([cls EXCEPT ![i] = r.cl],
                            RemoveOperationById(ops, transaction.id),
                            dis, r.ok, r.diag, FALSE)
            ELSE Outcome(cls, ops, dis, FALSE, UnknownTx, FALSE)
        ELSE Outcome(cls, ops, dis, FALSE, UnknownClient, FALSE)

\* The DISPUTE arm creating a record for an unseen client, as the DEPOSIT arm
\* does, before it reports the client as unknown.
ProcessDisputeCreates(transaction, cls, ops, dis) ==
    LET i == FindClientById(cls, transaction.client)
        k == FindOperationById(ops, transaction.id)
    IN  IF i # 0 THEN
            IF k # 0 THEN
                LET r == ApplyDispute(cls[i], ops[k])
                IN  Outcome([cls EXCEPT ![i] = r.cl],
                            RemoveOperationById(ops, transaction.id),
                            IF r.ok THEN Append(dis, ops[k]) ELSE dis,
                            r.ok, r.diag, FALSE)
            ELSE Outcome(cls, ops, dis, FALSE, UnknownTx, FALSE)
        ELSE Outcome(Append(cls, NewClient(transaction.client, 0)),
                     ops, dis, FALSE, UnknownClient, FALSE)

\* The DISPUTE arm applying the dispute to the client that made the disputed
\* operation instead of the client the Dispute names.
ProcessDisputeChargesOwner(transaction, cls, ops, dis) ==
    LET i == FindClientById(cls, transaction.client)
        k == FindOperationById(ops, transaction.id)
    IN  IF i # 0 THEN
            IF k # 0 THEN
                LET o == FindClientById(cls, ops[k].client)
                    j == IF o # 0 THEN o ELSE i
                    r == ApplyDispute(cls[j], ops[k])
                IN  Outcome([cls EXCEPT ![j] = r.cl],
                            RemoveOperationById(ops, transaction.id),
                            IF r.ok THEN Append(dis, ops[k]) ELSE dis,
                            r.ok, r.diag, FALSE)
            ELSE Outcome(cls, ops, dis, FALSE, UnknownTx, FALSE)
        ELSE Outcome(cls, ops, dis, FALSE, UnknownClient, FALSE)

ProcessDispute(transaction, cls, ops, dis) ==
    LET i == FindClientById(cls, transaction.client)
        k == FindOperationById(ops, transaction.id)
    IN  IF i # 0 THEN
            IF k # 0 THEN
                LET r == ApplyDispute(cls[i], ops[k])
                IN  Outcome([cls EXCEPT ![i] = r.cl],
                            RemoveOperationById(ops, transaction.id),
                            IF r.ok THEN Append(dis, ops[k]) ELSE dis,
                            r.ok, r.diag, FALSE)
            ELSE Outcome(cls, ops, dis, FALSE, UnknownTx, FALSE)
        ELSE Outcome(cls, ops, dis, FALSE, UnknownClient, FALSE)

\* The RESOLVE arm removing the operation from the dispute list whatever
\* apply_resolve returned, as the DISPUTE arm does with the disputable list.
ProcessResolveRemovesOnFailure(transaction, cls, ops, dis) ==
    LET i == FindClientById(cls, transaction.client)
        k == FindOperationById(dis, transaction.id)
    IN  IF i # 0 THEN
            IF k # 0 THEN
                LET r == ApplyResolve(cls[i], dis[k])
                IN  Outcome([cls EXCEPT ![i] = r.cl], ops,
                            RemoveOperationById(dis, transaction.id),
                            r.ok, r.diag, r.panic)
            ELSE Outcome(cls, ops, dis, FALSE, UnknownTx, FALSE)
        ELSE Outcome(cls, ops, dis, FALSE, UnknownClient, FALSE)

ProcessResolve(transaction, cls, ops, dis) ==
    LET i == FindClientById(cls, transaction.client)
        k == FindOperationById(dis, transaction.id)
    IN  IF i # 0 THEN
            IF k # 0 THEN
                LET r == ApplyResolve(cls[i], dis[k])
                IN  Outcome([cls EXCEPT ![i] = r.cl], ops,
                            IF r.ok THEN RemoveOperationById(dis, transaction.id)
                                    ELSE dis,
                            r.ok, r.diag, r.panic)
            ELSE Outcome(cls, ops, dis, FALSE, UnknownTx, FALSE)
        ELSE Outcome(cls, ops, dis, FALSE, UnknownClient, FALSE)

ProcessChargeback(transaction, cls, ops, dis) ==
    LET i == FindClientById(cls, transaction.client)
        k == FindOperationById(dis, transaction.id)
    IN  IF i # 0 THEN
            IF k # 0 THEN
                LET r == ApplyChargeback(cls[i], dis[k])
                IN  Outcome([cls EXCEPT ![i] = r.cl], ops,
                            IF r.ok THEN RemoveOperationById(dis, transaction.id)
                                    ELSE dis,
                            r.ok, r.diag, r.panic)
            ELSE Outcome(cls, ops, dis, FALSE, UnknownTx, FALSE)
        ELSE Outcome(cls, ops, dis, FALSE, UnknownClient, FALSE)

ProcessTransaction(transaction, cls, ops, dis) ==
    CASE transaction.type = "DEPOSIT" -> ProcessDeposit(transaction, cls, ops, dis)
      [] transaction.type = "WITHDRAWAL" -> ProcessWithdrawal(transaction, cls, ops, dis)
      [] transaction.type = "DISPUTE" -> ProcessDispute(transaction, cls, ops, dis)
      [] transaction.type = "RESOLVE" -> ProcessResolve(transaction, cls, ops, dis)
      [] transaction.type = "CHARGEBACK" -> ProcessChargeback(transaction, cls, ops, dis)

\* ----------------------------------------------- process_transaction_list
Init ==
    /\ clients = <<>>
    /\ transactions = <<>>
    /\ disputes = <<>>
    /\ n = 0
    /\ log = <<>>
    /\ panicked = FALSE

\* The loop has a next record to take.
Running ==
    /\ ~panicked
    /\ n < MaxOps

\* One iteration of `for l in lst` for a record that converts to
\* `transaction`: the call of process_transaction, then the push of the
\* transaction on the list of disputable operations.
Iterate(transaction) ==
    LET r == ProcessTransaction(transaction, clients, transactions, disputes)
    IN  IF r.panic
        THEN /\ panicked' = TRUE
             /\ clients' = r.clients
             /\ UNCHANGED <<transactions, disputes, n, log>>
        ELSE /\ clients' = r.clients
             /\ transactions' = Append(r.operations, transaction)
             /\ disputes' = r.disputes
             /\ n' = n + 1
             /\ log' = Append(log, [op |-> transaction, ok |-> r.ok,
                                    diag |-> r.diag])
             /\ UNCHANGED panicked

\* The transaction ids of the deposits and withdrawals handed to
\* process_transaction so far.
UsedTxIds ==
    {log[i].op.id : i \in {j \in 1..Len(log) :
                              log[j].op.type \in {"DEPOSIT", "WITHDRAWAL"}}}

Deposit(ids) ==
    /\ Running
    /\ \E c \in ClientIds, t \in ids, a \in DepositAmounts :
          Iterate(DEPOSIT(c, t, a))

Withdrawal(ids) ==
    /\ Running
    /\ \E c \in ClientIds, t \in ids, a \in WithdrawalAmounts :
          Iterate(WITHDRAWAL(c, t, a))

Dispute ==
    /\ Running
    /\ \E c \in ClientIds, t \in TxIds : Iterate(DISPUTE(c, t))

Resolve ==
    /\ Running
    /\ \E c \in ClientIds, t \in TxIds : Iterate(RESOLVE(c, t))

Chargeback ==
    /\ Running
    /\ \E c \in ClientIds, t \in TxIds : Iterate(CHARGEBACK(c, t))

\* A record that is reported and skipped (`continue`): a deposit or a
\* withdrawal without amount, or an unknown operation type.
SkipRecord ==
    /\ Running
    /\ n' = n + 1
    /\ UNCHANGED <<clients, transactions, disputes, log, panicked>>

\* Any input list.
Next ==
    \/ Deposit(TxIds)
    \/ Withdrawal(TxIds)
    \/ Dispute
    \/ Resolve
    \/ Chargeback
    \/ SkipRecord

Spec == Init /\ [][Next]_vars

\* Input lists whose deposits and withdrawals carry pairwise distinct
\* transaction ids.
NextUnique ==
    \/ Deposit(TxIds \ UsedTxIds)
    \/ Withdrawal(TxIds \ UsedTxIds)
    \/ Dispute
    \/ Resolve
    \/ Chargeback
    \/ SkipRecord

SpecUnique == Init /\ [][NextUnique]_vars

\* ------------------------------------------- further sets of input lists
\* The same loop over other input lists: the client ids, the transaction ids
\* and the amounts the records carry, and the number of records taken.
RunningTo(max) ==
    /\ ~panicked
    /\ n < max

DepositIn(cs, ids, amounts, max) ==
    /\ RunningTo(max)
    /\ \E c \in cs, t \in ids, a \in amounts : Iterate(DEPOSIT(c, t, a))

WithdrawalIn(cs, ids, amounts, max) ==
    /\ RunningTo(max)
    /\ \E c \in cs, t \in ids, a \in amounts : Iterate(WITHDRAWAL(c, t, a))

DisputeIn(cs, ids, max) ==
    /\ RunningTo(max)
    /\ \E c \in cs, t \in ids : Iterate(DISPUTE(c, t))

ResolveIn(cs, ids, max) ==
    /\ RunningTo(max)
    /\ \E c \in cs, t \in ids : Iterate(RESOLVE(c, t))

ChargebackIn(cs, ids, max) ==
    /\ RunningTo(max)
    /\ \E c \in cs, t \in ids : Iterate(CHARGEBACK(c, t))

SkipRecordTo(max) ==
    /\ RunningTo(max)
    /\ n' = n + 1
    /\ UNCHANGED <<clients, transactions, disputes, log, panicked>>

\* Input lists whose deposits may carry a negative amount (the amount column
\* is an f32 that nothing validates).
SignedAmounts == {-1, 1, 2}

NextSigned ==
    \/ DepositIn(ClientIds, TxIds, SignedAmounts, MaxOps)
    \/ WithdrawalIn(ClientIds, TxIds, WithdrawalAmounts, MaxOps)
    \/ DisputeIn(ClientIds, TxIds, MaxOps)
    \/ ResolveIn(ClientIds, TxIds, MaxOps)
    \/ ChargebackIn(ClientIds, TxIds, MaxOps)
    \/ SkipRecordTo(MaxOps)

SpecSigned == Init /\ [][NextSigned]_vars

\* Longer input lists of deposits of either sign, numbered 1, 2, 3 in their
\* order, and of the three dispute operations naming a deposit already read;
\* no withdrawals.
MaxOpsSigned == 5
EitherSign == {-1, 1}
ThreeTxIds == {1, 2, 3}
NextTxId == {t \in ThreeTxIds : t = Cardinality(UsedTxIds) + 1}

NextSignedDeposits ==
    \/ DepositIn(ClientIds, NextTxId, EitherSign, MaxOpsSigned)
    \/ DisputeIn(ClientIds, UsedTxIds, MaxOpsSigned)
    \/ ResolveIn(ClientIds, UsedTxIds, MaxOpsSigned)
    \/ ChargebackIn(ClientIds, UsedTxIds, MaxOpsSigned)

SpecSignedDeposits == Init /\ [][NextSignedDeposits]_vars

\* Longer input lists that name one client only, with pairwise distinct
\* deposit/withdrawal ids.
MaxOpsOneClient == 6
OneClient == {1}

NextOneClient ==
    \/ DepositIn(OneClient, TxIds \ UsedTxIds, DepositAmounts, MaxOpsOneClient)
    \/ WithdrawalIn(OneClient, TxIds \ UsedTxIds, WithdrawalAmounts, MaxOpsOneClient)
    \/ DisputeIn(OneClient, TxIds, MaxOpsOneClient)
    \/ ResolveIn(OneClient, TxIds, MaxOpsOneClient)
    \/ ChargebackIn(OneClient, TxIds, MaxOpsOneClient)
    \/ SkipRecordTo(MaxOpsOneClient)

SpecOneClient == Init /\ [][NextOneClient]_vars

\* Longer input lists of two clients in which every record carries the same
\* transaction id.
MaxOpsOneTx == 5
OneTx == {1}

NextOneTx ==
    \/ DepositIn(ClientIds, OneTx, DepositAmounts, MaxOpsOneTx)
    \/ WithdrawalIn(ClientIds, OneTx, WithdrawalAmounts, MaxOpsOneTx)
    \/ DisputeIn(ClientIds, OneTx, MaxOpsOneTx)
    \/ ResolveIn(ClientIds, OneTx, MaxOpsOneTx)
    \/ ChargebackIn(ClientIds, OneTx, MaxOpsOneTx)
    \/ SkipRecordTo(MaxOpsOneTx)

SpecOneTx == Init /\ [][NextOneTx]_vars

\* ------------------------------------------------------------- properties
\* The outcome of the latest call of process_transaction.
Last == log[Len(log)]

\* This step is a loop iteration that handed `transaction` to
\* process_transaction.
Processes(transaction) ==
    /\ Len(log') = Len(log) + 1
    /\ log'[Len(log')].op = transaction

\* This step processed an operation that process_transaction applied
\* (accepted) or turned down (rejected).
Accepted == Len(log') = Len(log) + 1 /\ log'[Len(log')].ok
Rejected == Len(log') = Len(log) + 1 /\ ~log'[Len(log')].ok

\* A deposit or a withdrawal: the only entries the lookups can match.
IsDisputable(tx) == tx.type \in {"DEPOSIT", "WITHDRAWAL"}

\* The Deposit/Withdrawal entries of a collection, in order.
Entries(txs) == SelectSeq(txs, IsDisputable)

\* The collection holds a Deposit/Withdrawal entry with this transaction id.
Holds(txs, tx_id) ==
    \E k \in 1..Len(txs) : IsDisputable(txs[k]) /\ txs[k].id = tx_id

\* The balances and the flag of every client record.
Balances(cls) ==
    [i \in 1..Len(cls) |->
        <<cls[i].id, cls[i].available, cls[i].held, cls[i].total, cls[i].locked>>]

C2_FirstDisputeClearsJournal ==
    [][\A c \in ClientIds, t \in TxIds :
          ( /\ Processes(DISPUTE(c, t))
            /\ FindClientById(clients, c) # 0
            /\ Holds(transactions, t)
            /\ ~\E j \in 1..Len(log) :
                    log[j].op.type = "DISPUTE" /\ log[j].op.id = t )
          => ~Holds(transactions', t)]_vars

\* C3: with unique deposit/withdrawal ids, at most one Dispute per
\* transaction id is ever accepted.
C3_AtMostOneAcceptedDispute ==
    \A t \in TxIds :
        Cardinality({j \in 1..Len(log) :
                        /\ log[j].op.type = "DISPUTE"
                        /\ log[j].op.id = t
                        /\ log[j].ok}) <= 1

\* C4: between operations, no transaction id has a Deposit/Withdrawal entry
\* both in the Journal and in the Dispute Registry.
C4_JournalRegistryDisjoint ==
    \A t \in TxIds : ~(Holds(transactions, t) /\ Holds(disputes, t))

\* C5: a rejected operation leaves the Client Ledger, the Journal (its
\* Deposit/Withdrawal entries) and the Dispute Registry as they were.
C5_RejectionChangesNothing ==
    [][Rejected =>
          /\ clients' = clients
          /\ Entries(transactions') = Entries(transactions)
          /\ disputes' = disputes]_vars

\* C6: once a client is locked, no later operation changes its available,
\* held, total or locked.
C6_LockedClientFrozen ==
    [][\A i \in 1..Len(clients) :
          clients[i].locked =>
              /\ i <= Len(clients')
              /\ clients'[i] = clients[i]]_vars

\* C6 witness: the operation just processed names a locked client and was
\* turned down because the account is locked.
C6_Witness ==
    /\ Len(log) > 0
    /\ Last.diag = LockedAccount
    /\ \E i \in 1..Len(clients) :
          clients[i].locked /\ clients[i].id = Last.op.client

\* C7: a locked flag changes only from false to true, and only in a step
\* that is an accepted Chargeback naming that client.
C7_OnlyChargebackLocks ==
    [][\A i \in 1..Len(clients) :
          /\ i <= Len(clients')
          /\ (clients'[i].locked # clients[i].locked =>
                /\ ~clients[i].locked
                /\ clients'[i].locked
                /\ Accepted
                /\ \E t \in TxIds : Processes(CHARGEBACK(clients[i].id, t)))]_vars

\* C7 witness: an accepted Chargeback has just locked the client it names.
C7_Witness ==
    /\ Len(log) > 0
    /\ Last.op.type = "CHARGEBACK"
    /\ Last.ok
    /\ \E i \in 1..Len(clients) :
          clients[i].locked /\ clients[i].id = Last.op.client

\* C8: a Resolve or Chargeback whose transaction id has no entry in the
\* Dispute Registry changes no balance or flag and removes nothing from the
\* Registry; one that changes a balance references an id the Registry held
\* before the step.
C8_AbsentIdIsNoOp ==
    [][\A c \in ClientIds, t \in TxIds :
          (Processes(RESOLVE(c, t)) \/ Processes(CHARGEBACK(c, t))) =>
              /\ ~Holds(disputes, t) =>
                    (Balances(clients') = Balances(clients) /\ disputes' = disputes)
              /\ Balances(clients') # Balances(clients) => Holds(disputes, t)]_vars

\* C8 witness: a Resolve or Chargeback by a known client has just been turned
\* down for an id the Registry does not hold, while the Registry holds
\* another one.
C8_Witness ==
    /\ Len(log) > 0
    /\ Last.op.type \in {"RESOLVE", "CHARGEBACK"}
    /\ Last.diag = UnknownTx
    /\ ~Holds(disputes, Last.op.id)
    /\ Entries(disputes) # <<>>

\* C9: every Deposit/Withdrawal entry of the Journal is a copy of an accepted
\* operation; a rejected Deposit or Withdrawal never appears in it.
C9_JournalHoldsAcceptedOnly ==
    \A k \in 1..Len(transactions) :
        IsDisputable(transactions[k]) =>
            \E j \in 1..Len(log) : log[j].op = transactions[k] /\ log[j].ok

\* C10: a Dispute that references the id of a rejected Withdrawal (and of no
\* accepted operation) is rejected.
C10_DisputeOfRejectedWithdrawal ==
    \A i \in 1..Len(log) :
        ( /\ log[i].op.type = "DISPUTE"
          /\ \E j \in 1..(i - 1) :
                /\ log[j].op.type = "WITHDRAWAL"
                /\ log[j].op.id = log[i].op.id
                /\ ~log[j].ok
          /\ ~\E j \in 1..(i - 1) :
                /\ IsDisputable(log[j].op)
                /\ log[j].op.id = log[i].op.id
                /\ log[j].ok )
        => ~log[i].ok

\* The collections as they are after the first k transactions of the log,
\* recomputed from the empty collections.
RECURSIVE StateAfter(_)
StateAfter(k) ==
    IF k = 0
    THEN [clients |-> <<>>, transactions |-> <<>>, disputes |-> <<>>]
    ELSE LET s == StateAfter(k - 1)
             r == ProcessTransaction(log[k].op, s.clients, s.transactions,
                                     s.disputes)
         IN  [clients |-> r.clients,
              transactions |-> Append(r.operations, log[k].op),
              disputes |-> r.disputes]

\* C11: an accepted Dispute followed at once by an accepted Resolve of the
\* same transaction by the same client leaves available, held, total and
\* locked as they were before the Dispute, and a second Resolve of that id
\* right after changes nothing.
C11_DisputeResolveRoundTrip ==
    \A k \in 2..Len(log) :
        ( /\ log[k - 1].op.type = "DISPUTE"
          /\ log[k - 1].ok
          /\ log[k].op = RESOLVE(log[k - 1].op.client, log[k - 1].op.id)
          /\ log[k].ok )
        => /\ Balances(StateAfter(k).clients) = Balances(StateAfter(k - 2).clients)
           /\ (k < Len(log) /\ log[k + 1].op = log[k].op) =>
                 Balances(StateAfter(k + 1).clients) = Balances(StateAfter(k).clients)

\* The transaction this step handed to process_transaction (for a step that
\* is a loop iteration).
Taken == Len(log') = Len(log) + 1
StepOp == log'[Len(log')].op

\* The ledger has a record for this client id.
Known(cls, client_id) == \E i \in 1..Len(cls) : cls[i].id = client_id

\* C12: a client record is added only by a Deposit naming a client id not
\* yet in the ledger; any other operation naming an unseen client is rejected
\* and creates no record; no operation removes or renames a record.
C12_OnlyDepositCreatesClient ==
    [][ /\ Len(clients') >= Len(clients)
        /\ \A i \in 1..Len(clients) : clients'[i].id = clients[i].id
        /\ Len(clients') # Len(clients) =>
              /\ Len(clients') = Len(clients) + 1
              /\ Taken
              /\ StepOp.type = "DEPOSIT"
              /\ StepOp.client = clients'[Len(clients')].id
              /\ ~Known(clients, StepOp.client)
        /\ (Taken /\ StepOp.type # "DEPOSIT" /\ ~Known(clients, StepOp.client)) =>
              /\ Rejected
              /\ clients' = clients ]_vars

\* C12 witness: with a client in the ledger, an operation other than a
\* Deposit has just named a client that is not in it.
C12_Witness ==
    /\ Len(log) > 0
    /\ Last.op.type # "DEPOSIT"
    /\ Last.diag = UnknownClient
    /\ ~Known(clients, Last.op.client)
    /\ Len(clients) > 0

\* The least element of a non-empty set of positions.
Least(S) == CHOOSE k \in S : \A j \in S : k <= j

\* The positions in the log of the operations, and of the Deposits, that
\* name this client.
Appearances(client_id) ==
    {k \in 1..Len(log) : log[k].op.client = client_id}
DepositsOf(client_id) ==
    {k \in 1..Len(log) : log[k].op.type = "DEPOSIT" /\ log[k].op.client = client_id}

\* C13 as stated: the clients of the ledger are in the order in which their
\* ids first appear in any operation of the input.
C13_OrderedByFirstAppearance ==
    \A i, j \in 1..Len(clients) :
        i < j => Least(Appearances(clients[i].id)) < Least(Appearances(clients[j].id))

\* C13 as amended: the clients of the ledger are those a Deposit has named,
\* in the order of the first Deposit naming each.
C13_OrderedByFirstDeposit ==
    /\ \A c \in ClientIds : Known(clients, c) <=> DepositsOf(c) # {}
    /\ \A i, j \in 1..Len(clients) :
          i < j => Least(DepositsOf(clients[i].id)) < Least(DepositsOf(clients[j].id))

\* C13 witness: the second client of the ledger was named by an operation
\* before the first Deposit of the first client.
C13_Witness ==
    /\ Len(clients) = 2
    /\ Least(Appearances(clients[2].id)) < Least(DepositsOf(clients[1].id))

\* C14: whatever signed amounts the records carry, no assert! of
\* apply_resolve or apply_chargeback fails: the run never aborts inside
\* process_transaction.
C14_NeverAborts == ~panicked

\* The position of the first Deposit/Withdrawal entry with this id in a
\* collection that holds one, and the collection without the entry at a
\* position.
FirstEntry(txs, tx_id) ==
    Least({k \in 1..Len(txs) : IsDisputable(txs[k]) /\ txs[k].id = tx_id})
Without(txs, k) == SubSeq(txs, 1, k - 1) \o SubSeq(txs, k + 1, Len(txs))

\* This step processes a Dispute, by a client of the ledger, whose id matches
\* a Journal entry of another client.
MismatchedDispute ==
    /\ Taken
    /\ StepOp.type = "DISPUTE"
    /\ Known(clients, StepOp.client)
    /\ Holds(transactions, StepOp.id)
    /\ transactions[FirstEntry(transactions, StepOp.id)].client # StepOp.client

\* C15 as stated: a Dispute whose client id differs from that of the Journal
\* entry it matches is rejected and removes no entry from the Journal.
C15_MismatchKeepsJournal ==
    [][MismatchedDispute =>
          /\ Rejected
          /\ Entries(transactions') = Entries(transactions)]_vars

\* C15 as amended: such a Dispute is rejected, changes no balance and adds
\* nothing to the Registry, and removes from the Journal the entry it matched
\* (the first with that id); the other entries stay, in order.
C15_MismatchRemovesEntry ==
    [][MismatchedDispute =>
          /\ Rejected
          /\ Balances(clients') = Balances(clients)
          /\ disputes' = disputes
          /\ Entries(transactions') =
                Entries(Without(transactions,
                                FirstEntry(transactions, StepOp.id)))]_vars

\* C15 witness: a Dispute has just been rejected for a client mismatch.
C15_Witness ==
    /\ Len(log) > 0
    /\ Last.op.type = "DISPUTE"
    /\ Last.diag = ClientMismatch

\* The Dispute Registry entries that belong to a client, in their order.
RegistryOf(dis, client_id) == SelectSeq(dis, LAMBDA e : e.client = client_id)

\* C16: once a client is locked, no step removes (or adds, or reorders) a
\* Dispute Registry entry belonging to that client, and no step decreases the
\* client's held amount.
C16_LockedDisputesStuck ==
    [][\A i \in 1..Len(clients) :
          clients[i].locked =>
              /\ RegistryOf(disputes', clients[i].id) =
                    RegistryOf(disputes, clients[i].id)
              /\ clients'[i].held >= clients[i].held]_vars

\* C16 witness: a Resolve or Chargeback naming an open dispute of a locked
\* client has just been rejected, and the dispute is still in the Registry.
C16_Witness ==
    /\ Len(log) > 0
    /\ Last.op.type \in {"RESOLVE", "CHARGEBACK"}
    /\ ~Last.ok
    /\ \E i \in 1..Len(clients) :
          /\ clients[i].locked
          /\ clients[i].id = Last.op.client
          /\ \E k \in 1..Len(disputes) :
                /\ disputes[k].client = clients[i].id
                /\ disputes[k].id = Last.op.id

\* This step processes a Resolve or a Chargeback, by a client of the ledger,
\* whose id is found in the Dispute Registry, and rejects it.
RejectedFinalize ==
    /\ Rejected
    /\ StepOp.type \in {"RESOLVE", "CHARGEBACK"}
    /\ Known(clients, StepOp.client)
    /\ Holds(disputes, StepOp.id)

\* Processing `transaction` in the state this step leaves behind applies it.
AcceptedNext(transaction) ==
    LET r == ProcessTransaction(transaction, clients', transactions', disputes')
    IN  r.ok /\ ~r.panic

\* C17: a Resolve or Chargeback that finds its id in the Dispute Registry but
\* is rejected leaves the Registry unchanged, and when it was rejected for a
\* client mismatch, a Resolve and a Chargeback of the same id by the client
\* that owns the entry, if not locked, is accepted when processed next.
C17_RejectedFinalizeRetryable ==
    [][RejectedFinalize =>
          /\ disputes' = disputes
          /\ LET e == disputes[FirstEntry(disputes, StepOp.id)]
             IN  (/\ e.client # StepOp.client
                  /\ \E i \in 1..Len(clients') :
                        clients'[i].id = e.client /\ ~clients'[i].locked)
                 => /\ AcceptedNext(RESOLVE(e.client, StepOp.id))
                    /\ AcceptedNext(CHARGEBACK(e.client, StepOp.id))]_vars

\* The ledger record of a client the ledger knows.
RecordOf(cls, client_id) ==
    cls[CHOOSE i \in 1..Len(cls) : cls[i].id = client_id]

\* Every record but that of `client_id` is the same in both ledgers.
OthersUntouched(cls, cls2, client_id) ==
    /\ Len(cls2) = Len(cls)
    /\ \A i \in 1..Len(cls) : cls[i].id # client_id => cls2[i] = cls[i]

\* C18: a Withdrawal is accepted exactly when its client is in the ledger, is
\* not locked and has available >= amount; accepted, it takes amount off
\* available and total and leaves held and locked (and every other client)
\* alone; not accepted, it changes no balance.
C18_WithdrawalEffect ==
    [][(Taken /\ StepOp.type = "WITHDRAWAL") =>
          LET c == StepOp.client
              a == StepOp.amount
          IN  /\ Accepted <=> (/\ Known(clients, c)
                               /\ ~RecordOf(clients, c).locked
                               /\ RecordOf(clients, c).available >= a)
              /\ Accepted =>
                    /\ OthersUntouched(clients, clients', c)
                    /\ RecordOf(clients', c) =
                          [RecordOf(clients, c) EXCEPT !.available = @ - a,
                                                       !.total = @ - a]
              /\ Rejected => Balances(clients') = Balances(clients)]_vars

\* C18 witness: a Withdrawal that leaves its client with no available funds
\* has just been accepted.
C18_Witness ==
    /\ Len(log) > 0
    /\ Last.op.type = "WITHDRAWAL"
    /\ Last.ok
    /\ RecordOf(clients, Last.op.client).available = 0

\* What C19 says a Deposit step does to the ledger: a new record for an unseen
\* client, amount added to available and total of a known unlocked one.
DepositLedgerEffect ==
    LET c == StepOp.client
        a == StepOp.amount
    IN  /\ ~Known(clients, c) =>
              clients' = Append(clients,
                                [id |-> c, available |-> a, held |-> 0,
                                 total |-> a, locked |-> FALSE])
        /\ (Known(clients, c) /\ ~RecordOf(clients, c).locked) =>
              /\ OthersUntouched(clients, clients', c)
              /\ RecordOf(clients', c) =
                    [RecordOf(clients, c) EXCEPT !.available = @ + a,
                                                 !.total = @ + a]

\* This step processes a Deposit of an unseen or of a known unlocked client.
DepositApplies ==
    /\ Taken
    /\ StepOp.type = "DEPOSIT"
    /\ Known(clients, StepOp.client) => ~RecordOf(clients, StepOp.client).locked

DepositLedgerEffectHolds == [][DepositApplies => DepositLedgerEffect]_vars

\* C20: an accepted Dispute of a Deposit entry moves the entry's amount from
\* available to held, total unchanged; of a Withdrawal entry, adds the amount
\* to held and total, available unchanged; either way nothing else in the
\* ledger changes and a copy of the entry is appended to the Dispute Registry.
C20_AcceptedDisputeEffect ==
    [][(Accepted /\ StepOp.type = "DISPUTE") =>
          LET c == StepOp.client
              e == transactions[FirstEntry(transactions, StepOp.id)]
          IN  /\ OthersUntouched(clients, clients', c)
              /\ e.type = "DEPOSIT" =>
                    RecordOf(clients', c) =
                       [RecordOf(clients, c) EXCEPT !.available = @ - e.amount,
                                                    !.held = @ + e.amount]
              /\ e.type = "WITHDRAWAL" =>
                    RecordOf(clients', c) =
                       [RecordOf(clients, c) EXCEPT !.held = @ + e.amount,
                                                    !.total = @ + e.amount]
              /\ disputes' = Append(disputes, e)]_vars

\* C20 witness: a Dispute of a Withdrawal that had been accepted has just
\* been accepted, and its copy is the last entry of the Dispute Registry.
C20_Witness ==
    /\ Len(log) > 1
    /\ Last.op.type = "DISPUTE"
    /\ Last.ok
    /\ Len(disputes) > 0
    /\ disputes[Len(disputes)].type = "WITHDRAWAL"
    /\ disputes[Len(disputes)].id = Last.op.id
    /\ \E k \in 1..Len(log) : log[k].op = disputes[Len(disputes)] /\ log[k].ok

\* C21: an accepted Chargeback removes the entry it matched from the Dispute
\* Registry (the other entries stay, in order), locks the client and takes the
\* entry's amount off held; for a Deposit entry it also takes the amount off
\* total, available unchanged; for a Withdrawal entry it adds the amount to
\* available, total unchanged; no other client changes.
C21_AcceptedChargebackEffect ==
    [][(Accepted /\ StepOp.type = "CHARGEBACK") =>
          LET c == StepOp.client
              k == FirstEntry(disputes, StepOp.id)
              e == disputes[k]
          IN  /\ OthersUntouched(clients, clients', c)
              /\ disputes' = Without(disputes, k)
              /\ e.type = "DEPOSIT" =>
                    RecordOf(clients', c) =
                       [RecordOf(clients, c) EXCEPT !.held = @ - e.amount,
                                                    !.total = @ - e.amount,
                                                    !.locked = TRUE]
              /\ e.type = "WITHDRAWAL" =>
                    RecordOf(clients', c) =
                       [RecordOf(clients, c) EXCEPT !.held = @ - e.amount,
                                                    !.available = @ + e.amount,
                                                    !.locked = TRUE]]_vars

\* C21 witness: a Chargeback of a disputed Withdrawal that had been accepted
\* has just been accepted, and its client is locked.
C21_Witness ==
    /\ Len(log) > 2
    /\ Last.op.type = "CHARGEBACK"
    /\ Last.ok
    /\ RecordOf(clients, Last.op.client).locked
    /\ \E k \in 1..Len(log) :
          /\ log[k].op.type = "WITHDRAWAL"
          /\ log[k].ok
          /\ log[k].op.id = Last.op.id
          /\ log[k].op.client = Last.op.client

\* No two Deposit/Withdrawal entries of the collection carry the same id.
OneEntryPerId(txs) ==
    \A j, k \in 1..Len(txs) :
        (IsDisputable(txs[j]) /\ IsDisputable(txs[k]) /\ txs[j].id = txs[k].id)
            => j = k

\* C22: when the Deposit/Withdrawal ids of the input are pairwise distinct,
\* neither the Journal nor the Dispute Registry ever holds two
\* Deposit/Withdrawal entries with the same id (so the removal of the first
\* match removes the only one).
C22_OneEntryPerId ==
    OneEntryPerId(transactions) /\ OneEntryPerId(disputes)

\* The Dispute Registry half of C22 alone (it fails too).
RegistryOneEntryPerId == OneEntryPerId(disputes)

\* This step processes again the operation that was processed, and rejected,
\* just before it.
Replay ==
    /\ Taken
    /\ Len(log) > 0
    /\ StepOp = Last.op
    /\ ~Last.ok

\* The operation rejected just before was a Dispute that matched a Journal
\* entry and was refused for a client mismatch or for lack of funds.
LastWasRefusedDispute ==
    /\ Last.op.type = "DISPUTE"
    /\ Last.diag \in {ClientMismatch, LacksFunds}

IdsNameOneRecord ==
    \A j, k \in 1..Len(log) :
        (IsDisputable(log[j].op) /\ IsDisputable(log[k].op)
            /\ log[j].op.id = log[k].op.id) => log[j].op = log[k].op

AmountsNonNegative ==
    \A k \in 1..Len(log) : IsDisputable(log[k].op) => log[k].op.amount >= 0

\* C24: when every Deposit/Withdrawal amount of the input is non-negative,
\* every client's available balance is >= 0 in every reachable state.
C24_AvailableNonNegative ==
    AmountsNonNegative =>
        \A i \in 1..Len(clients) : clients[i].available >= 0

\* C24 witness: a Dispute of a Deposit has just been refused for lack of
\* funds (the deposited amount was withdrawn), leaving available at 0.
C24_Witness ==
    /\ Len(log) > 0
    /\ AmountsNonNegative
    /\ Last.op.type = "DISPUTE"
    /\ Last.diag = LacksFunds
    /\ RecordOf(clients, Last.op.client).available = 0

\* The sum of the amounts of the entries of a collection.
RECURSIVE SumOfAmounts(_)
SumOfAmounts(txs) ==
    IF txs = <<>> THEN 0 ELSE Head(txs).amount + SumOfAmounts(Tail(txs))

C26_OtherClientsUntouched ==
    [][Taken =>
          \A i \in 1..Len(clients) :
              clients[i].id # StepOp.client =>
                  /\ i <= Len(clients')
                  /\ clients'[i] = clients[i]]_vars

\* C26 witness: a Dispute, Resolve or Chargeback naming one client and the
\* transaction of another client has just been processed, both clients being
\* in the ledger.
C26_Witness ==
    /\ Len(log) > 0
    /\ Last.op.type \in {"DISPUTE", "RESOLVE", "CHARGEBACK"}
    /\ Last.diag = ClientMismatch
    /\ Len(clients) = 2

\* C27: the Client Ledger holds at most one record per client id.
C27_OneRecordPerClient ==
    \A i, j \in 1..Len(clients) : clients[i].id = clients[j].id => i = j

\* C27 witness: a second Deposit of a client has just been accepted, and the
\* ledger holds the records of two clients.
C27_Witness ==
    /\ Len(log) > 1
    /\ Last.op.type = "DEPOSIT"
    /\ Last.ok
    /\ \E k \in 1..(Len(log) - 1) :
          /\ log[k].op.type = "DEPOSIT"
          /\ log[k].op.client = Last.op.client
    /\ Len(clients) = 2

====
